---------------------------- MODULE Spec2Model ----------------------------
(***************************************************************************)
(* HeartRate-For-VRChat (src/src/main.rs): the connection supervisor       *)
(* main_loop, the device selector find_target_device, the session          *)
(* handle_device_connection with its heart-rate decoding, the file sink    *)
(* write_heart_rate_to_file and the OSC emitter send_osc.                  *)
(*                                                                         *)
(* The program is one async task.  pc is the await the task is suspended   *)
(* at; every action is the resolution of that await with one outcome       *)
(* (Ok / Err / a value) followed by the code up to the next await.  The    *)
(* BLE library (btleplug), the file system and the UDP socket are the      *)
(* environment: their answers are drawn with \E.                           *)
(***************************************************************************)
EXTENDS Integers, Sequences, FiniteSets

(***************************************************************************)
(* Bounds of the model.                                                    *)
(***************************************************************************)
NumDevices == 2        \* peripheral addresses 1..NumDevices
MaxPeripherals == 2    \* longest peripheral list a scan returns
MaxQueue == 1          \* notifications buffered in the stream, not yet polled
MaxLen == 3            \* longest notification payload drawn (CodecSpec)
HeartbeatTicks == 2    \* ticks of one heartbeat_timeout_secs window

(***************************************************************************)
(* Program constants.                                                      *)
(***************************************************************************)
heart_rate_char_uuid == 10807         \* 0x2A37, CONFIG.heart_rate_char_uuid
max_heart_rate_for_percent == 200     \* CONFIG.max_heart_rate_for_percent
NormalisedCeiling == 240              \* the literal 240.0 / 240 of send_osc
U8Max == 255                          \* heart_rate.min(255) as u8

\* Option<T>: None is the empty sequence, Some(v) the one-element sequence.
None == << >>
Some(v) == << v >>
IsSome(o) == o # << >>
Unwrap(o) == o[1]

Min(a, b) == IF a < b THEN a ELSE b

NoDevice == 0
Addresses == 1..NumDevices

(***************************************************************************)
(* Device Selector: the data find_target_device reads.                     *)
(* A name is a sequence of characters; the configured target names are     *)
(* abbreviated to short sequences, matched by substring as                 *)
(* name.contains(target) does.                                             *)
(***************************************************************************)
target_device_names == { <<"H", "W">>, <<"H", "N">> }

Contains(name, target) ==
    \E i \in 1..(Len(name) - Len(target) + 1) :
        SubSeq(name, i, i + Len(target) - 1) = target

NameVals == { None, Some(<<"H", "W", "8">>), Some(<<"P", "H">>) }
RssiVals == { None, Some(-80), Some(-50) }

\* What p.properties().await yields for one peripheral: an error, Ok(None),
\* or Ok(Some(props)) with local_name and rssi, each optional.
PropsVals == { [kind |-> "Err"], [kind |-> "NoProps"] } \cup
             { [kind |-> "Props", local_name |-> n, rssi |-> r] :
                   n \in NameVals, r \in RssiVals }

PeripheralVals == { [addr |-> a, props |-> p] : a \in Addresses, p \in PropsVals }

DistinctAddrs(list) ==
    \A i, j \in 1..Len(list) : i # j => list[i].addr # list[j].addr

SeqsUpTo(S, n) == UNION { [1..k -> S] : k \in 0..n }

PeripheralLists == { l \in SeqsUpTo(PeripheralVals, MaxPeripherals) : DistinctAddrs(l) }

selection_mode == "StrongestSignal"

\* One iteration of `for p in peripherals` (lines 217-273) on the running
\* candidates acc = [err, strongest, name_match]; strongest is
\* Option<(addr, rssi)>, name_match is Option<addr>.
LoopBody(acc, p) ==
    IF acc.err THEN acc
    ELSE IF p.props.kind = "Err" THEN [acc EXCEPT !.err = TRUE]
    ELSE IF p.props.kind = "NoProps" THEN acc
    ELSE
      LET nm == IF ~IsSome(acc.name_match)
                   /\ IsSome(p.props.local_name)
                   /\ \E t \in target_device_names :
                          Contains(Unwrap(p.props.local_name), t)
                THEN Some(p.addr)
                ELSE acc.name_match
          st == IF IsSome(p.props.rssi)
                   /\ (~IsSome(acc.strongest)
                       \/ Unwrap(p.props.rssi) > Unwrap(acc.strongest)[2])
                THEN Some(<<p.addr, Unwrap(p.props.rssi)>>)
                ELSE acc.strongest
      IN [acc EXCEPT !.name_match = nm, !.strongest = st]

RECURSIVE ScanLoop(_, _)
ScanLoop(acc, list) ==
    IF list = << >> THEN acc
    ELSE ScanLoop(LoopBody(acc, Head(list)), Tail(list))

\* Variant: when the mode's candidate is absent the other one is taken.
ChosenByFallback(mode, acc) ==
    LET st == IF IsSome(acc.strongest) THEN Some(Unwrap(acc.strongest)[1])
              ELSE None
    IN IF mode = "ByName"
       THEN (IF IsSome(acc.name_match) THEN acc.name_match ELSE st)
       ELSE (IF IsSome(st) THEN st ELSE acc.name_match)

\* `match selection_mode` (lines 276-286): the candidate of the mode, as
\* Option<addr>.
ChosenBy(mode, acc) ==
    IF mode = "ByName" THEN acc.name_match
    ELSE IF IsSome(acc.strongest) THEN Some(Unwrap(acc.strongest)[1])
    ELSE None

\* chosen_peripheral in this build, where selection_mode is fixed (199).
ChosenPeripheral(acc) == ChosenBy(selection_mode, acc)

\* Lines 206-310 up to the await of line 291 for a given mode: "Err" (a
\* properties() error propagated by `?`), "DeviceNotFound", or the chosen
\* address.
SelectWith(mode, list) ==
    IF list = << >> THEN [kind |-> "DeviceNotFound"]
    ELSE LET acc == ScanLoop([err |-> FALSE, strongest |-> None,
                              name_match |-> None], list)
         IN IF acc.err THEN [kind |-> "Err"]
            ELSE IF IsSome(ChosenBy(mode, acc))
                 THEN [kind |-> "Chosen", addr |-> Unwrap(ChosenBy(mode, acc))]
                 ELSE [kind |-> "DeviceNotFound"]

SelectFrom(list) == SelectWith(selection_mode, list)


(***************************************************************************)
(* Heart-rate decoding (handle_device_connection, lines 363-375).          *)
(* A notification is [uuid, value]; value is a sequence of bytes, value[1] *)
(* being the Rust value[0].                                                *)
(***************************************************************************)
BitAnd1(flag) == flag % 2                 \* flag & 0x01

\* Variant: the two bytes taken in big-endian order.
FromBeBytes(lo, hi) == hi + 256 * lo

FromLeBytes(lo, hi) == lo + 256 * hi      \* u16::from_le_bytes([lo, hi])

\* Option<u16>: None when the notification is skipped (the outer `if` is
\* false, or one of the two `continue`s is taken).
\* Variant: the 16-bit branch without its length check falls back to byte 1.
DecodeHeartRateUnchecked(n) ==
    IF n.uuid = heart_rate_char_uuid /\ Len(n.value) >= 2
    THEN IF BitAnd1(n.value[1]) = 0
         THEN Some(n.value[2])
         ELSE IF Len(n.value) < 3 THEN Some(n.value[2])
              ELSE Some(FromLeBytes(n.value[2], n.value[3]))
    ELSE None

DecodeHeartRate(n) ==
    IF n.uuid = heart_rate_char_uuid /\ Len(n.value) >= 2
    THEN IF BitAnd1(n.value[1]) = 0
         THEN IF Len(n.value) < 2 THEN None ELSE Some(n.value[2])
         ELSE IF Len(n.value) < 3 THEN None
              ELSE Some(FromLeBytes(n.value[2], n.value[3]))
    ELSE None

\* Variant: `heart_rate as u8` without the min, which truncates.
ClampU8Truncates(heart_rate) == heart_rate % (U8Max + 1)

ClampU8(heart_rate) == Min(heart_rate, U8Max)    \* heart_rate.min(255) as u8

(***************************************************************************)
(* File sink: fs::write("HeartRate.txt", heart_rate.to_string()).          *)
(* The content is the decimal digits of the value, most significant first. *)
(***************************************************************************)
RECURSIVE to_string(_)
to_string(n) ==
    IF n < 10 THEN << n >> ELSE Append(to_string(n \div 10), n % 10)

(***************************************************************************)
(* OSC emitter send_osc (lines 106-169).  An f32 quotient a / b of two     *)
(* integers that f32 holds exactly is kept as the fraction [num, den].     *)
(***************************************************************************)
F32Div(a, b) == [num |-> a, den |-> b]

OscMessage(addr, type, val) == [addr |-> addr, args |-> << [type |-> type, val |-> val] >>]

IsActive(heart_rate) == heart_rate > 0

HrForPercent(heart_rate) == Min(heart_rate, max_heart_rate_for_percent)

HrForPercent2(heart_rate) == Min(heart_rate, NormalisedCeiling)

\* Variant: the integer sent without the cap.
HrForIntUncapped(heart_rate) == heart_rate

HrForInt(heart_rate) == Min(heart_rate, NormalisedCeiling)

OscTimetag == [seconds |-> 0, fractional |-> 1]

OscBundle(heart_rate) ==
    [ timetag |-> OscTimetag,
      content |-> <<
        OscMessage("/avatar/parameters/hr_connected", "Bool", IsActive(heart_rate)),
        OscMessage("/avatar/parameters/isHRActive", "Bool", IsActive(heart_rate)),
        OscMessage("/avatar/parameters/hr_percent", "Float",
                   F32Div(HrForPercent(heart_rate), max_heart_rate_for_percent)),
        OscMessage("/avatar/parameters/VRCOSC/Heartrate/Normalised", "Float",
                   F32Div(HrForPercent2(heart_rate), NormalisedCeiling)),
        OscMessage("/avatar/parameters/HR", "Int", HrForInt(heart_rate)) >> ]

(***************************************************************************)
(* State.                                                                  *)
(***************************************************************************)
VARIABLES
    pc,            \* the await main_loop is suspended at, or "stopped"
    device,        \* main_loop's `device`: the selected address, or NoDevice
    chosen,        \* find_target_device's chosen_peripheral, or NoDevice
    scanActive,    \* the adapter is scanning (start_scan without stop_scan)
    sessions,      \* live notification_stream objects (sessions being consumed)
    stream,        \* notifications delivered by the library, not yet polled
    streamClosed,  \* the library has ended the notification stream
    file,          \* content of HeartRate.txt: None, or Some(digits)
    sent,          \* the datagrams sent, latest last (the last two are kept)
    waited,        \* retry delays slept since the last attempt began
    stopCause,     \* why main_loop returned, "" while it runs
    last,          \* outcome of the latest step (what the log line reports)
    hdcResult,     \* what the latest handle_device_connection call returned:
                   \* "none" (not called), "Ok", or the error
    notification,  \* the loop's `notification`: None, or Some([uuid, value])
    decoded,       \* the loop's `heart_rate: u16`: None, or Some(value)
    elapsed        \* ticks run of the heartbeat timeout the loop waits on

vars == << pc, device, chosen, scanActive, sessions, stream, streamClosed,
           file, sent, waited, stopCause, last, hdcResult, notification,
           decoded, elapsed >>

\* The notifications the library delivers in the supervisor specification.
OtherUuid == 10777     \* 0x2A19, some other characteristic of the device

StreamNotifs ==
    { [uuid |-> heart_rate_char_uuid, value |-> v] :
          v \in { <<0, 75>>, <<1, 144, 1>>, <<1, 75>> } }
    \cup { [uuid |-> OtherUuid, value |-> <<0, 75>>] }

Init ==
    /\ pc = "startup"
    /\ device = NoDevice
    /\ chosen = NoDevice
    /\ scanActive = FALSE
    /\ sessions = 0
    /\ stream = << >>
    /\ streamClosed = FALSE
    /\ file = None
    /\ sent = << >>
    /\ waited = 0
    /\ stopCause = ""
    /\ last = "init"
    /\ hdcResult = "none"
    /\ notification = None
    /\ decoded = None
    /\ elapsed = 0

(***************************************************************************)
(* main_loop, before the loop (lines 403-409): Manager::new() and the UDP  *)
(* socket; an error here returns before the supervisor loop runs.          *)
(***************************************************************************)
Startup ==
    /\ pc = "startup"
    /\ \E ok \in BOOLEAN :
         IF ok
         THEN /\ pc' = "fd_adapters"
              /\ last' = "startup_ok"
              /\ stopCause' = stopCause
         ELSE /\ pc' = "stopped"
              /\ last' = "startup_err"
              /\ stopCause' = "startup"
    /\ elapsed' = elapsed
    /\ UNCHANGED << device, chosen, scanActive, sessions, stream, streamClosed,
                    file, sent, waited,
                    hdcResult, notification, decoded >>

(***************************************************************************)
(* find_target_device (lines 174-311), called at line 413.                 *)
(***************************************************************************)
\* Variant: the selector's error is propagated with `?` instead of matched.
SelectorFailedPropagates(e) ==
    /\ pc' = "stopped"
    /\ last' = e
    /\ chosen' = NoDevice

\* Variant: `continue` without the sleep of line 418.
SelectorFailedNoDelay(e) ==
    /\ pc' = "fd_adapters"
    /\ last' = e
    /\ chosen' = NoDevice

\* find_target_device returns Err(e): main_loop logs it and sleeps the retry
\* delay (lines 415-418).  Nothing on this path stops the scan.
SelectorFailed(e) ==
    /\ pc' = "scan_retry_sleep"
    /\ last' = e
    /\ chosen' = NoDevice

\* manager.adapters().await? and .next().ok_or(AdapterNotFound)? (176-180);
\* then start_scan is awaited.
FdAdapters ==
    /\ pc = "fd_adapters"
    /\ waited' = 0
    /\ \E r \in {"Err", "Empty", "Ok"} :
         CASE r = "Err" -> SelectorFailed("fd:adapters_err")
           [] r = "Empty" -> SelectorFailed("fd:AdapterNotFound")
           [] OTHER -> /\ pc' = "fd_start_scan"
                       /\ last' = "fd:adapters_ok"
                       /\ chosen' = NoDevice
    /\ elapsed' = elapsed
    /\ UNCHANGED << device, scanActive, sessions, stream, streamClosed,
                    file, sent, stopCause,
                    hdcResult, notification, decoded >>

\* central.start_scan(scan_filter).await? (187); then the scan sleep.
FdStartScan ==
    /\ pc = "fd_start_scan"
    /\ \E ok \in BOOLEAN :
         IF ok
         THEN /\ scanActive' = TRUE
              /\ pc' = "fd_scan_sleep"
              /\ last' = "fd:scan_started"
              /\ chosen' = chosen
         ELSE /\ scanActive' = scanActive
              /\ SelectorFailed("fd:start_scan_err")
    /\ elapsed' = elapsed
    /\ UNCHANGED << device, sessions, stream, streamClosed, file, sent,
                    waited, stopCause,
                    hdcResult, notification, decoded >>

\* time::sleep(scan_duration_secs) (188); then peripherals() is awaited.
FdScanSleep ==
    /\ pc = "fd_scan_sleep"
    /\ pc' = "fd_peripherals"
    /\ last' = "fd:scan_slept"
    /\ elapsed' = elapsed
    /\ UNCHANGED << device, chosen, scanActive, sessions, stream, streamClosed,
                    file, sent, waited, stopCause,
                    hdcResult, notification, decoded >>

\* central.peripherals().await? answered with `list`, the loop over it with
\* its properties() awaits, and the choice (206-289, 304-310).
FdPeripheralsOk(list) ==
    /\ pc = "fd_peripherals"
    /\ LET r == SelectFrom(list)
       IN CASE r.kind = "Err" -> SelectorFailed("fd:properties_err")
            [] r.kind = "DeviceNotFound" -> SelectorFailed("fd:DeviceNotFound")
            [] OTHER -> /\ pc' = "fd_chosen_props"
                        /\ chosen' = r.addr
                        /\ last' = "fd:chosen"
    /\ elapsed' = elapsed
    /\ UNCHANGED << device, scanActive, sessions, stream, streamClosed,
                    file, sent, waited, stopCause,
                    hdcResult, notification, decoded >>

\* central.peripherals().await? fails (206).
FdPeripheralsErr ==
    /\ pc = "fd_peripherals"
    /\ SelectorFailed("fd:peripherals_err")
    /\ elapsed' = elapsed
    /\ UNCHANGED << device, scanActive, sessions, stream, streamClosed,
                    file, sent, waited, stopCause,
                    hdcResult, notification, decoded >>

FdPeripherals ==
    /\ pc = "fd_peripherals"
    /\ \/ FdPeripheralsErr
       \/ \E list \in PeripheralLists : FdPeripheralsOk(list)

\* p.properties().await?.unwrap_or_default() of the chosen device (291);
\* then stop_scan is awaited.
FdChosenProps ==
    /\ pc = "fd_chosen_props"
    /\ \E ok \in BOOLEAN :
         IF ok
         THEN /\ pc' = "fd_stop_scan"
              /\ last' = "fd:chosen_props_ok"
              /\ chosen' = chosen
         ELSE SelectorFailed("fd:chosen_props_err")
    /\ elapsed' = elapsed
    /\ UNCHANGED << device, scanActive, sessions, stream, streamClosed,
                    file, sent, waited, stopCause,
                    hdcResult, notification, decoded >>

\* central.stop_scan().await? and return Ok(p) (302-303): main_loop binds
\* `device` and awaits is_connected (413-427).  When stop_scan fails the
\* adapter may or may not have stopped.
FdStopScan ==
    /\ pc = "fd_stop_scan"
    /\ \E ok \in BOOLEAN :
         IF ok
         THEN /\ scanActive' = FALSE
              /\ device' = chosen
              /\ chosen' = NoDevice
              /\ pc' = "is_connected"
              /\ last' = "fd:selected"
         ELSE /\ scanActive' \in BOOLEAN
              /\ device' = device
              /\ SelectorFailed("fd:stop_scan_err")
    /\ elapsed' = elapsed
    /\ UNCHANGED << sessions, stream, streamClosed, file, sent, waited,
                    stopCause,
                    hdcResult, notification, decoded >>

\* time::sleep(retry_delay_secs) and `continue` (418-419).
ScanRetrySleep ==
    /\ pc = "scan_retry_sleep"
    /\ pc' = "fd_adapters"
    /\ waited' = waited + 1
    /\ last' = "scan_retry_slept"
    /\ elapsed' = elapsed
    /\ UNCHANGED << device, chosen, scanActive, sessions, stream, streamClosed,
                    file, sent, stopCause,
                    hdcResult, notification, decoded >>

(***************************************************************************)
(* The inner loop of main_loop (424-456) and handle_device_connection      *)
(* (314-399).                                                              *)
(***************************************************************************)
\* Variant: the error leaves the inner loop and the selector runs at once.
ConnectionFailedRescans(e) ==
    /\ pc' = "fd_adapters"
    /\ last' = e
    /\ hdcResult' = e

\* handle_device_connection returns Err(e) before the stream exists:
\* main_loop logs it (428-430) and goes to the retry delay (434-438).
ConnectionFailed(e) ==
    /\ pc' = "reconnect_sleep"
    /\ last' = e
    /\ hdcResult' = e

\* device.is_connected().await? (427).  An error returns from main_loop;
\* true skips handle_device_connection; false calls it, which awaits
\* device.connect() (320).
IsConnected ==
    /\ pc = "is_connected"
    /\ waited' = 0
    /\ hdcResult' = "none"
    /\ \E r \in {"Err", "true", "false"} :
         CASE r = "Err" -> /\ pc' = "stopped"
                           /\ stopCause' = "is_connected"
                           /\ last' = "is_connected_err"
           [] r = "true" -> /\ pc' = "reconnect_sleep"
                            /\ stopCause' = stopCause
                            /\ last' = "already_connected"
           [] OTHER -> /\ pc' = "connect"
                       /\ stopCause' = stopCause
                       /\ last' = "not_connected"
    /\ elapsed' = elapsed
    /\ UNCHANGED << device, chosen, scanActive, sessions, stream, streamClosed,
                    file, sent, notification, decoded >>

\* device.connect().await? (320); then discover_services is awaited.
Connect ==
    /\ pc = "connect"
    /\ \E ok \in BOOLEAN :
         IF ok
         THEN /\ pc' = "discover_services"
              /\ last' = "connected"
              /\ hdcResult' = hdcResult
         ELSE ConnectionFailed("hc:connect_err")
    /\ elapsed' = elapsed
    /\ UNCHANGED << device, chosen, scanActive, sessions, stream, streamClosed,
                    file, sent, waited, stopCause,
                    notification, decoded >>

\* device.discover_services().await?, the search for the heart-rate
\* characteristic and its NOTIFY flag (327-338); then subscribe is awaited.
DiscoverServices ==
    /\ pc = "discover_services"
    /\ \E r \in {"Err", "absent", "no_notify", "notify"} :
         CASE r = "Err" -> ConnectionFailed("hc:discover_err")
           [] r = "absent" -> ConnectionFailed("hc:CharacteristicNotFound")
           [] r = "no_notify" -> ConnectionFailed("hc:SubscriptionFailed")
           [] OTHER -> /\ pc' = "subscribe"
                       /\ last' = "characteristic_found"
                       /\ hdcResult' = hdcResult
    /\ elapsed' = elapsed
    /\ UNCHANGED << device, chosen, scanActive, sessions, stream, streamClosed,
                    file, sent, waited, stopCause,
                    notification, decoded >>

\* device.subscribe(&hr_char).await? (340); then notifications() is awaited.
Subscribe ==
    /\ pc = "subscribe"
    /\ \E ok \in BOOLEAN :
         IF ok
         THEN /\ pc' = "notifications"
              /\ last' = "subscribed"
              /\ hdcResult' = hdcResult
         ELSE ConnectionFailed("hc:subscribe_err")
    /\ elapsed' = elapsed
    /\ UNCHANGED << device, chosen, scanActive, sessions, stream, streamClosed,
                    file, sent, waited, stopCause,
                    notification, decoded >>

\* device.notifications().await? (341): the stream is created and the loop
\* awaits its first timeout(.., next()) (346-351).
Notifications ==
    /\ pc = "notifications"
    /\ \E ok \in BOOLEAN :
         IF ok
         THEN /\ pc' = "streaming"
              /\ last' = "stream_open"
              /\ hdcResult' = hdcResult
              /\ sessions' = sessions + 1
         ELSE /\ ConnectionFailed("hc:notifications_err")
              /\ sessions' = sessions
    /\ stream' = << >>
    /\ streamClosed' = FALSE
    /\ elapsed' = elapsed
    /\ UNCHANGED << device, chosen, scanActive, file, sent, waited, stopCause,
                    notification, decoded >>

\* Variant: the loop is left but the notification stream is kept alive.
SessionEndedKeepsStream(how, res) ==
    /\ pc' = "reconnect_sleep"
    /\ last' = how
    /\ hdcResult' = res
    /\ sessions' = sessions
    /\ stream' = << >>
    /\ streamClosed' = FALSE
    /\ notification' = None
    /\ decoded' = None
    /\ elapsed' = 0

\* handle_device_connection returns `res` from the loop: its locals and
\* notification_stream are dropped, main_loop goes to the retry delay
\* (384, 398, 428-438).
SessionEnded(how, res) ==
    /\ pc' = "reconnect_sleep"
    /\ last' = how
    /\ hdcResult' = res
    /\ sessions' = sessions - 1
    /\ stream' = << >>
    /\ streamClosed' = FALSE
    /\ notification' = None
    /\ decoded' = None
    /\ elapsed' = 0

\* The library puts a notification into the stream.
EnvNotify ==
    /\ pc = "streaming"
    /\ ~streamClosed
    /\ Len(stream) < MaxQueue
    /\ \E n \in StreamNotifs : stream' = Append(stream, n)
    /\ elapsed' = elapsed
    /\ UNCHANGED << pc, device, chosen, scanActive, sessions, streamClosed,
                    file, sent, waited, stopCause, last,
                    hdcResult, notification, decoded >>

\* The library ends the stream (the device went away).
EnvCloseStream ==
    /\ pc = "streaming"
    /\ ~streamClosed
    /\ streamClosed' = TRUE
    /\ elapsed' = elapsed
    /\ UNCHANGED << pc, device, chosen, scanActive, sessions, stream,
                    file, sent, waited, stopCause, last,
                    hdcResult, notification, decoded >>

\* Variant: one timeout is armed for the whole loop; only a sample rearms it.
TimeoutRestartOnSample(ran, accepted) == IF accepted THEN 0 ELSE ran

\* Every iteration of the loop builds a new time::timeout(...) around
\* next() (346-352): whatever the previous iteration received, the window
\* starts again.
TimeoutRestart(ran, accepted) == 0

\* A tick of the heartbeat timeout passes while next() has nothing to yield.
HeartbeatTick ==
    /\ pc = "streaming"
    /\ stream = << >>
    /\ ~streamClosed
    /\ elapsed < HeartbeatTicks
    /\ elapsed' = elapsed + 1
    /\ UNCHANGED << pc, device, chosen, scanActive, sessions, stream,
                    streamClosed, file, sent, waited, stopCause, last,
                    hdcResult, notification, decoded >>

\* Variant: the timeout arm logs and polls again instead of `break`.
HeartbeatTimeoutContinues ==
    /\ pc = "streaming"
    /\ stream = << >>
    /\ ~streamClosed
    /\ elapsed = HeartbeatTicks
    /\ last' = "hc:timeout"
    /\ elapsed' = elapsed
    /\ UNCHANGED << pc, device, chosen, scanActive, sessions, stream,
                    streamClosed, file, sent, waited, stopCause, hdcResult,
                    notification, decoded >>

\* time::timeout(heartbeat_timeout_secs, next()) yields Err(_) (354-360):
\* the timer ran out while next() had nothing to yield.
HeartbeatTimeout ==
    /\ pc = "streaming"
    /\ stream = << >>
    /\ ~streamClosed
    /\ elapsed = HeartbeatTicks
    /\ SessionEnded("hc:timeout", "Ok")
    /\ UNCHANGED << device, chosen, scanActive, file, sent, waited, stopCause >>

\* next() yields None (391-394).
StreamNone ==
    /\ pc = "streaming"
    /\ stream = << >>
    /\ streamClosed
    /\ SessionEnded("hc:stream_closed", "Ok")
    /\ UNCHANGED << device, chosen, scanActive, file, sent, waited, stopCause >>

\* write_heart_rate_to_file (96-100): fs::write creates/truncates, then
\* writes.  "create_err" leaves the file, "write_err" leaves it truncated.
FileAfterWrite(old, heart_rate, r) ==
    CASE r = "ok" -> Some(to_string(heart_rate))
      [] r = "write_err" -> Some(<< >>)
      [] OTHER -> old

\* send_osc (106-169) with encode and send succeeding: one datagram.  The
\* record keeps the heart_rate argument beside the bundle sent.
Datagram(heart_rate) == [heart_rate |-> heart_rate, bundle |-> OscBundle(heart_rate)]

KeepLastTwo(s) == IF Len(s) > 2 THEN SubSeq(s, Len(s) - 1, Len(s)) ELSE s

\* Variant: the messages go out in two datagrams instead of one bundle.
SentAfterSplit(old, heart_rate, oscOk) ==
    IF oscOk
    THEN LET b == OscBundle(heart_rate)
         IN KeepLastTwo(old \o
              << [heart_rate |-> heart_rate,
                  bundle |-> [b EXCEPT !.content = SubSeq(b.content, 1, 2)]],
                 [heart_rate |-> heart_rate,
                  bundle |-> [b EXCEPT !.content = SubSeq(b.content, 3, 5)]] >>)
    ELSE old

SentAfter(old, heart_rate, oscOk) ==
    IF oscOk THEN KeepLastTwo(Append(old, Datagram(heart_rate))) ELSE old

\* Variant: send_osc's error is propagated with `?` instead of logged.
RecvNotificationPropagates ==
    /\ pc = "streaming"
    /\ stream # << >>
    /\ LET n == Head(stream)
           hr == DecodeHeartRate(n)
       IN IF ~IsSome(hr)
          THEN /\ stream' = Tail(stream)
               /\ notification' = Some(n)
               /\ decoded' = hr
               /\ last' = "hc:ignored"
               /\ elapsed' = TimeoutRestart(elapsed, FALSE)
               /\ UNCHANGED << pc, sessions, streamClosed, file, sent, hdcResult >>
          ELSE \E fileRes \in {"ok", "create_err", "write_err"},
                  oscOk \in BOOLEAN, flushOk \in BOOLEAN :
                 LET heart_rate_u8 == ClampU8(Unwrap(hr))
                 IN /\ file' = FileAfterWrite(file, heart_rate_u8, fileRes)
                    /\ sent' = SentAfter(sent, heart_rate_u8, oscOk)
                    /\ IF ~oscOk
                       THEN SessionEnded("hc:osc_err", "hc:osc_err")
                       ELSE IF ~flushOk
                       THEN SessionEnded("hc:flush_err", "hc:flush_err")
                       ELSE /\ stream' = Tail(stream)
                            /\ notification' = Some(n)
                            /\ decoded' = hr
                            /\ elapsed' = TimeoutRestart(elapsed, TRUE)
                            /\ last' = IF fileRes = "ok"
                                       THEN (IF oscOk THEN "hc:sample"
                                                      ELSE "hc:sample_osc_err")
                                       ELSE (IF oscOk THEN "hc:sample_file_err"
                                                      ELSE "hc:sample_both_err")
                            /\ UNCHANGED << pc, sessions, streamClosed, hdcResult >>
    /\ UNCHANGED << device, chosen, scanActive, waited, stopCause >>

\* next() yields Some(notification) (362-389): decode, file write, OSC send,
\* stdout flush.  A failed flush (384) is returned with `?`.
RecvNotification ==
    /\ pc = "streaming"
    /\ stream # << >>
    /\ LET n == Head(stream)
           hr == DecodeHeartRate(n)
       IN IF ~IsSome(hr)
          THEN /\ stream' = Tail(stream)
               /\ notification' = Some(n)
               /\ decoded' = hr
               /\ last' = "hc:ignored"
               /\ elapsed' = TimeoutRestart(elapsed, FALSE)
               /\ UNCHANGED << pc, sessions, streamClosed, file, sent, hdcResult >>
          ELSE \E fileRes \in {"ok", "create_err", "write_err"},
                  oscOk \in BOOLEAN, flushOk \in BOOLEAN :
                 LET heart_rate_u8 == ClampU8(Unwrap(hr))
                 IN /\ file' = FileAfterWrite(file, heart_rate_u8, fileRes)
                    /\ sent' = SentAfter(sent, heart_rate_u8, oscOk)
                    /\ IF oscOk /\ ~flushOk
                       THEN SessionEnded("hc:flush_err", "hc:flush_err")
                       ELSE /\ stream' = Tail(stream)
                            /\ notification' = Some(n)
                            /\ decoded' = hr
                            /\ elapsed' = TimeoutRestart(elapsed, TRUE)
                            /\ last' = IF fileRes = "ok"
                                       THEN (IF oscOk THEN "hc:sample"
                                                      ELSE "hc:sample_osc_err")
                                       ELSE (IF oscOk THEN "hc:sample_file_err"
                                                      ELSE "hc:sample_both_err")
                            /\ UNCHANGED << pc, sessions, streamClosed, hdcResult >>
    /\ UNCHANGED << device, chosen, scanActive, waited, stopCause >>

\* time::sleep(retry_delay_secs) (438); then manager.adapters() is awaited.
ReconnectSleep ==
    /\ pc = "reconnect_sleep"
    /\ pc' = "recheck_adapters"
    /\ waited' = waited + 1
    /\ last' = "reconnect_slept"
    /\ elapsed' = elapsed
    /\ UNCHANGED << device, chosen, scanActive, sessions, stream, streamClosed,
                    file, sent, stopCause,
                    hdcResult, notification, decoded >>

\* manager.adapters().await? and .next().ok_or(AdapterNotFound)? (442-447);
\* then peripherals() is awaited.
RecheckAdapters ==
    /\ pc = "recheck_adapters"
    /\ \E r \in {"Err", "Empty", "Ok"} :
         CASE r = "Err" -> /\ pc' = "stopped"
                           /\ stopCause' = "recheck_adapters"
                           /\ last' = "recheck:adapters_err"
           [] r = "Empty" -> /\ pc' = "stopped"
                             /\ stopCause' = "recheck_no_adapter"
                             /\ last' = "recheck:AdapterNotFound"
           [] OTHER -> /\ pc' = "recheck_peripherals"
                       /\ stopCause' = stopCause
                       /\ last' = "recheck:adapters_ok"
    /\ elapsed' = elapsed
    /\ UNCHANGED << device, chosen, scanActive, sessions, stream, streamClosed,
                    file, sent, waited,
                    hdcResult, notification, decoded >>

\* Variant: .any() in place of .all(): rescans when some other device is listed.
RecheckPeripheralsAny(present) ==
    /\ pc = "recheck_peripherals"
    /\ IF \E a \in present : a # device
       THEN /\ pc' = "fd_adapters"
            /\ device' = NoDevice
            /\ last' = "recheck:rescan"
            /\ hdcResult' = "none"
       ELSE /\ pc' = "is_connected"
            /\ device' = device
            /\ last' = "recheck:reconnect"
            /\ hdcResult' = hdcResult
    /\ stopCause' = stopCause
    /\ elapsed' = elapsed
    /\ UNCHANGED << chosen, scanActive, sessions, stream, streamClosed,
                    file, sent, waited, notification, decoded >>

\* .peripherals().await? answered with the addresses `present`, and
\* .all(|p| p.address() != device.address()) (448-455).  `break` leaves the
\* inner loop, whose latest result is forgotten with it.
RecheckPeripheralsOk(present) ==
    /\ pc = "recheck_peripherals"
    /\ IF \A a \in present : a # device
       THEN /\ pc' = "fd_adapters"
            /\ device' = NoDevice
            /\ last' = "recheck:rescan"
            /\ hdcResult' = "none"
       ELSE /\ pc' = "is_connected"
            /\ device' = device
            /\ last' = "recheck:reconnect"
            /\ hdcResult' = hdcResult
    /\ stopCause' = stopCause
    /\ elapsed' = elapsed
    /\ UNCHANGED << chosen, scanActive, sessions, stream, streamClosed,
                    file, sent, waited, notification, decoded >>

\* .peripherals().await? fails (449): main_loop returns the error.
RecheckPeripheralsErr ==
    /\ pc = "recheck_peripherals"
    /\ pc' = "stopped"
    /\ stopCause' = "recheck_peripherals"
    /\ last' = "recheck:peripherals_err"
    /\ elapsed' = elapsed
    /\ UNCHANGED << device, chosen, scanActive, sessions, stream, streamClosed,
                    file, sent, waited,
                    hdcResult, notification, decoded >>

RecheckPeripherals ==
    \/ RecheckPeripheralsErr
    \/ \E present \in SUBSET Addresses : RecheckPeripheralsOk(present)

(***************************************************************************)
(* The supervisor.                                                         *)
(***************************************************************************)
Next ==
    \/ Startup
    \/ FdAdapters
    \/ FdStartScan
    \/ FdScanSleep
    \/ FdPeripherals
    \/ FdChosenProps
    \/ FdStopScan
    \/ ScanRetrySleep
    \/ IsConnected
    \/ Connect
    \/ DiscoverServices
    \/ Subscribe
    \/ Notifications
    \/ EnvNotify
    \/ EnvCloseStream
    \/ HeartbeatTick
    \/ HeartbeatTimeout
    \/ StreamNone
    \/ RecvNotification
    \/ ReconnectSleep
    \/ RecheckAdapters
    \/ RecheckPeripherals

Spec == Init /\ [][Next]_vars

(***************************************************************************)
(* Scheduling.  tokio fires a timer that was armed (the sleeps, the        *)
(* heartbeat timeout) and polls a stream that has something to yield; the  *)
(* BLE library owes no answer and no notification.                         *)
(***************************************************************************)
TimerStep ==
    \/ FdScanSleep \/ ScanRetrySleep \/ ReconnectSleep
    \/ HeartbeatTick \/ HeartbeatTimeout

PollStep == RecvNotification \/ StreamNone

FairSpec == Spec /\ WF_vars(TimerStep) /\ WF_vars(PollStep)

(***************************************************************************)
(* The streaming loop on drawn inputs: a session in Streaming whose stream *)
(* already holds the notifications `q`.                                    *)
(***************************************************************************)
InStreaming(q) ==
    /\ pc = "streaming"
    /\ device = 1
    /\ chosen = NoDevice
    /\ scanActive = FALSE
    /\ sessions = 1
    /\ stream = q
    /\ streamClosed = FALSE
    /\ file = None
    /\ sent = << >>
    /\ waited = 0
    /\ stopCause = ""
    /\ last = "stream_open"
    /\ hdcResult = "none"
    /\ notification = None
    /\ decoded = None
    /\ elapsed = 0

\* Payload bytes drawn for the decoder: both flag parities, flags with other
\* bits set, and values around the u8 range.
CodecBytes == { 0, 1, 2, 3, 75, 144, 255 }

CodecNotifs ==
    { [uuid |-> u, value |-> v] :
          u \in { heart_rate_char_uuid, OtherUuid },
          v \in SeqsUpTo(CodecBytes, MaxLen) }

InitCodec == \E n \in CodecNotifs : InStreaming(<< n >>)

CodecSpec == InitCodec /\ [][RecvNotification]_vars

\* An 8-bit heart-rate measurement carrying h.
Measurement8(h) == [uuid |-> heart_rate_char_uuid, value |-> << 0, h >>]

InitOsc ==
    \E h \in 0..U8Max : \E h2 \in { h, 0, U8Max } :
        InStreaming(<< Measurement8(h), Measurement8(h2) >>)

OscSpec == InitOsc /\ [][RecvNotification]_vars

(***************************************************************************)
(* Positions of the supervisor.                                            *)
(***************************************************************************)
\* Inside find_target_device ("Scanning").
SelectorPcs == { "fd_adapters", "fd_start_scan", "fd_scan_sleep",
                 "fd_peripherals", "fd_chosen_props", "fd_stop_scan" }

\* "Connecting": the is_connected guard and the connect/subscribe sequence.
ConnectingPcs == { "is_connected", "connect", "discover_services",
                   "subscribe", "notifications" }

\* Streaming setup and Streaming, after the connect call.
StreamingSetupPcs == { "discover_services", "subscribe", "notifications",
                       "streaming" }

\* The reconnect-vs-rescan check.
RecheckPcs == { "recheck_adapters", "recheck_peripherals" }

(***************************************************************************)
(* C1.  At most one Connection Session is active in every reachable state: *)
(* no notification stream is opened while an earlier one is still being    *)
(* consumed, and a stream is being consumed only by the one task, in       *)
(* Streaming.                                                              *)
(***************************************************************************)
C1_AtMostOneSession ==
    /\ sessions \in {0, 1}
    /\ (sessions = 1) <=> (pc = "streaming")

\* A second session has just been opened after an earlier one wrote a sample.
C1_Witness ==
    /\ pc = "streaming"
    /\ last = "stream_open"
    /\ sessions = 1
    /\ file # None

(***************************************************************************)
(* C2.  Once the loop runs, main_loop returns only because the adapter     *)
(* query of the reconnect-vs-rescan check failed (read generously: any     *)
(* failure of that check's adapter/peripheral query chain); every other    *)
(* BLE error is turned into a retry.                                       *)
(***************************************************************************)
C2_OnlyRecheckStops ==
    (pc = "stopped" /\ stopCause # "startup")
        => stopCause \in { "recheck_adapters", "recheck_no_adapter",
                           "recheck_peripherals" }

(***************************************************************************)
(* C3.  When the device already reports connected, the supervisor goes on  *)
(* to Streaming setup (characteristic lookup, subscribe, notifications)    *)
(* without a connect call.                                                 *)
(***************************************************************************)
C3_ConnectedGoesToStreamingSetup ==
    last = "already_connected" => pc \in StreamingSetupPcs

(***************************************************************************)
(* C4.  A heartbeat timeout ends the session with Ok: the supervisor is    *)
(* out of Streaming with no stream left, has not yet slept, and its next   *)
(* step is the single retry delay that leads to the reconnect-vs-rescan    *)
(* check; the check is only ever entered with exactly one delay slept.     *)
(***************************************************************************)
C4_TimeoutLeavesStreaming ==
    /\ [](last = "hc:timeout" =>
            /\ pc = "reconnect_sleep"
            /\ hdcResult = "Ok"
            /\ sessions = 0
            /\ waited = 0)
    /\ [][(last = "hc:timeout") => (pc' = "recheck_adapters" /\ waited' = 1)]_vars
    /\ [](pc \in RecheckPcs => waited = 1)

\* The timeout has fired in a session that had delivered a sample.
C4_Witness ==
    /\ last = "hc:timeout"
    /\ pc = "reconnect_sleep"
    /\ sent # << >>

(***************************************************************************)
(* C5 as stated.  After the retry delay the supervisor's next state is     *)
(* Scanning or Connecting, decided by the peripheral list alone.           *)
(***************************************************************************)
C5_DecidedByListAlone ==
    [][(pc \in RecheckPcs) =>
         (pc' \in { "recheck_peripherals", "fd_adapters", "is_connected" })]_vars

(***************************************************************************)
(* C5 amended.  When the adapter query and the peripheral query of         *)
(* the check succeed, the answer `present` alone decides: device absent -> *)
(* Scanning with the old handle dropped, so that Connecting is re-entered  *)
(* only through a selector success; device present -> Connecting with the  *)
(* same handle, no selector step in between.  A failing query stops the    *)
(* supervisor.                                                             *)
(***************************************************************************)
C5_Amended ==
    /\ [][\A present \in SUBSET Addresses :
            RecheckPeripheralsOk(present) =>
               (IF device \in present
                THEN pc' = "is_connected" /\ device' = device /\ chosen' = chosen
                ELSE pc' = "fd_adapters" /\ device' = NoDevice)]_vars
    /\ [][(pc \in RecheckPcs /\ pc' \notin RecheckPcs
            /\ last' \notin { "recheck:rescan", "recheck:reconnect" })
           => (pc' = "stopped")]_vars
    /\ [][(pc' = "is_connected" /\ pc \notin RecheckPcs)
           => (pc = "fd_stop_scan" /\ device' = chosen)]_vars

\* The device was still listed after a session that had streamed: reconnect.
C5_Witness ==
    /\ last = "recheck:reconnect"
    /\ pc = "is_connected"
    /\ device \in Addresses
    /\ sent # << >>

(***************************************************************************)
(* C6.  Every way find_target_device fails leaves the supervisor in        *)
(* Scanning: a step out of the selector goes on inside it, returns a       *)
(* selected device, or goes to the retry delay (never "stopped"); the      *)
(* retry delay is followed by a new selector call; Connecting is only      *)
(* entered with a selected device.                                         *)
(***************************************************************************)
C6_SelectorFailureRetries ==
    /\ [][(pc \in SelectorPcs) =>
            (\/ pc' \in SelectorPcs
             \/ pc' = "scan_retry_sleep" /\ device' = NoDevice
             \/ pc' = "is_connected" /\ last' = "fd:selected"
                  /\ device' \in Addresses)]_vars
    /\ [][(pc = "scan_retry_sleep") =>
            (pc' = "fd_adapters" /\ waited' = waited + 1)]_vars
    /\ [](pc \in ConnectingPcs => device \in Addresses)

\* The scan found nothing to select and the supervisor waits to scan again.
C6_Witness ==
    /\ pc = "scan_retry_sleep"
    /\ last = "fd:DeviceNotFound"

(***************************************************************************)
(* C7.  When find_target_device has returned (success or failure), the     *)
(* scan it started has been stopped.                                       *)
(***************************************************************************)
C7_ScanStoppedOnReturn ==
    pc \notin (SelectorPcs \cup {"startup"}) => ~scanActive

\* The awaits with no notification involved: the sleeps and the BLE calls of
\* the connect sequence.
WaitPcs == { "fd_scan_sleep", "scan_retry_sleep", "reconnect_sleep",
             "connect", "discover_services", "subscribe" }

(***************************************************************************)
(* C8.  Every wait is bounded: from each wait of the supervisor (scan      *)
(* sleep, connect, service discovery, subscribe, retry delays, and the     *)
(* wait for a notification while none is pending) the supervisor           *)
(* eventually moves on, whatever the BLE library does or fails to do.      *)
(***************************************************************************)
C8_EveryWaitBounded ==
    /\ \A s \in WaitPcs : (pc = s) ~> (pc # s)
    /\ (pc = "streaming" /\ stream = << >>)
          ~> (pc # "streaming" \/ stream # << >>)

(***************************************************************************)
(* C9.  A heart-rate notification with bit 0 of byte 0 clear and at least  *)
(* 2 bytes decodes to byte 1; with bit 0 set and at least 3 bytes it       *)
(* decodes to byte1 + 256 * byte2.                                         *)
(***************************************************************************)
C9_DecodeByWidth ==
    IsSome(notification) =>
        LET n == Unwrap(notification)
            v == n.value
        IN n.uuid = heart_rate_char_uuid =>
             /\ (Len(v) >= 2 /\ v[1] % 2 = 0) => decoded = Some(v[2])
             /\ (Len(v) >= 3 /\ v[1] % 2 = 1) => decoded = Some(v[2] + 256 * v[3])

\* A 16-bit measurement whose two bytes differ has been decoded (144 + 256).
C9_Witness ==
    /\ notification = Some([uuid |-> heart_rate_char_uuid, value |-> << 1, 144, 1 >>])
    /\ decoded = Some(400)

\* The addresses of the five messages, in the order send_osc lists them.
OscAddresses == << "/avatar/parameters/hr_connected",
                   "/avatar/parameters/isHRActive",
                   "/avatar/parameters/hr_percent",
                   "/avatar/parameters/VRCOSC/Heartrate/Normalised",
                   "/avatar/parameters/HR" >>

\* The single argument of the bundle's message addressed `addr`.
ArgOf(bundle, addr) ==
    LET i == CHOOSE k \in 1..Len(bundle.content) : bundle.content[k].addr = addr
    IN bundle.content[i].args[1]

\* The fraction f equals a / b.
FractionIs(f, a, b) == f.den > 0 /\ f.num * b = a * f.den

AllFromSample(b, h) ==
    /\ Len(b.content) = 5
    /\ \A k \in 1..5 : b.content[k].addr = OscAddresses[k]
    /\ b.content[1].args[1].val = (h > 0)
    /\ b.content[2].args[1].val = (h > 0)
    /\ FractionIs(b.content[3].args[1].val, Min(h, 200), 200)
    /\ FractionIs(b.content[4].args[1].val, Min(h, 240), 240)
    /\ b.content[5].args[1].val = Min(h, 240)

Readings(list) ==
    { i \in 1..Len(list) :
          list[i].props.kind = "Props" /\ IsSome(list[i].props.rssi) }

RssiAt(list, i) == Unwrap(list[i].props.rssi)

\* The position of the highest reading, the first one among equals.
FirstStrongest(list) ==
    CHOOSE i \in Readings(list) :
        /\ \A j \in Readings(list) : RssiAt(list, j) <= RssiAt(list, i)
        /\ \A j \in Readings(list) : j < i => RssiAt(list, j) < RssiAt(list, i)

(***************************************************************************)
(* C12.  In strongest-signal mode (the mode of this build), whenever the   *)
(* scanned list has at least one peripheral with available properties and  *)
(* a signal-strength reading, the selector chooses the peripheral with the *)
(* highest reading, the first one in iteration order among equals.         *)
(***************************************************************************)
C12_StrongestReturned ==
    [][(pc = "fd_peripherals") =>
         (\A list \in PeripheralLists :
             (FdPeripheralsOk(list) /\ Readings(list) # {}) =>
                (/\ pc' = "fd_chosen_props"
                 /\ chosen' = list[FirstStrongest(list)].addr))]_vars

\* Positions of the list whose peripheral answered properties with a name
\* that contains one of the configured target names.
NameMatches(list) ==
    { i \in 1..Len(list) :
          /\ list[i].props.kind = "Props"
          /\ IsSome(list[i].props.local_name)
          /\ \E t \in target_device_names :
                 Contains(Unwrap(list[i].props.local_name), t) }

FirstOf(S) == CHOOSE i \in S : \A j \in S : i <= j

(***************************************************************************)
(* C13.  In by-name mode the selector returns, for every scanned list      *)
(* with a matching name, the first peripheral in iteration order whose     *)
(* advertised name contains a configured target substring, whatever the    *)
(* signal strengths are.  The selection of lines 206-310 is evaluated with *)
(* the mode ByName on every list peripherals() can answer.                 *)
(***************************************************************************)
C13_FirstNameMatchReturned ==
    [][(pc = "fd_peripherals") =>
         (\A list \in PeripheralLists :
             (FdPeripheralsOk(list) /\ NameMatches(list) # {}) =>
                (SelectWith("ByName", list) =
                    [kind |-> "Chosen",
                     addr |-> list[FirstOf(NameMatches(list))].addr]))]_vars

\* No properties() query of the iteration fails.
NoQueryFails(list) == \A i \in 1..Len(list) : list[i].props.kind # "Err"

(***************************************************************************)
(* C18.  The selector returns only the candidate of the configured mode.   *)
(* When the iteration over the list ends without that candidate, or the    *)
(* list is empty, the selector fails with DeviceNotFound even if the other *)
(* mode's candidate exists; a peripheral it chooses is a candidate of the  *)
(* mode.  Stated for every list peripherals() can answer when the         *)
(* selector awaits it: for the mode of this build, and for by-name mode on *)
(* the selection evaluated with that mode.                                 *)
(***************************************************************************)
C18_NoFallback ==
    /\ [](pc = "fd_peripherals" =>
            \A list \in PeripheralLists :
               /\ (NoQueryFails(list) /\ Readings(list) = {}) =>
                     SelectFrom(list) = [kind |-> "DeviceNotFound"]
               /\ SelectFrom(list).kind = "Chosen" =>
                     \E i \in Readings(list) :
                         SelectFrom(list).addr = list[i].addr
               /\ (NoQueryFails(list) /\ NameMatches(list) = {}) =>
                     SelectWith("ByName", list) = [kind |-> "DeviceNotFound"]
               /\ SelectWith("ByName", list).kind = "Chosen" =>
                     \E i \in NameMatches(list) :
                         SelectWith("ByName", list).addr = list[i].addr)
    /\ [][(pc = "fd_peripherals") =>
            (\/ pc' = "fd_chosen_props" /\ last' = "fd:chosen"
                  /\ chosen' \in Addresses
             \/ pc' = "scan_retry_sleep" /\ chosen' = NoDevice
                  /\ last' \in {"fd:DeviceNotFound", "fd:properties_err",
                                "fd:peripherals_err"})]_vars
    /\ [](last = "fd:DeviceNotFound" =>
             (pc = "scan_retry_sleep" /\ chosen = NoDevice
                                      /\ device = NoDevice))

\* The selector has failed with DeviceNotFound and the retry delay runs.
C18_Witness ==
    /\ pc = "scan_retry_sleep"
    /\ last = "fd:DeviceNotFound"
    /\ chosen = NoDevice
    /\ scanActive

\* The errors handle_device_connection returns before the stream exists.
ConnectingFailures == { "hc:connect_err", "hc:discover_err",
                        "hc:CharacteristicNotFound", "hc:SubscriptionFailed",
                        "hc:subscribe_err", "hc:notifications_err" }

(***************************************************************************)
(* C14.  As stated: a failure of the Connecting sequence is logged and     *)
(* followed by the reconnect wait, after which the same device is retried  *)
(* and the supervisor does not return to Scanning.                         *)
(***************************************************************************)
C14_SameDeviceRetried ==
    /\ [](last \in ConnectingFailures =>
             (pc = "reconnect_sleep" /\ hdcResult = last))
    /\ [][(hdcResult \in ConnectingFailures
             /\ pc \in {"reconnect_sleep"} \cup RecheckPcs) =>
            (/\ pc' \notin SelectorPcs
             /\ device' = device)]_vars

(***************************************************************************)
(* C14, amended.  A failure of the Connecting sequence is logged and       *)
(* followed by one reconnect wait and then by the check of the adapter's   *)
(* peripheral list: when the device's address is in the list the same      *)
(* device is retried without a selector call; when it is absent the        *)
(* supervisor returns to Scanning; when a query of the check fails (or no  *)
(* adapter exists) main_loop returns.                                      *)
(***************************************************************************)
C14_Amended ==
    /\ [](last \in ConnectingFailures =>
             (pc = "reconnect_sleep" /\ hdcResult = last /\ device # NoDevice))
    /\ [][(hdcResult \in ConnectingFailures /\ pc = "reconnect_sleep") =>
            (pc' = "recheck_adapters" /\ waited' = waited + 1
                                      /\ device' = device)]_vars
    /\ [][(hdcResult \in ConnectingFailures /\ pc = "recheck_adapters") =>
            (pc' \in {"recheck_peripherals", "stopped"}
                /\ device' = device)]_vars
    /\ [][(hdcResult \in ConnectingFailures /\ pc = "recheck_peripherals") =>
            (pc' \in {"is_connected", "fd_adapters", "stopped"})]_vars
    /\ [][\A present \in SUBSET Addresses :
            (hdcResult \in ConnectingFailures
                /\ RecheckPeripheralsOk(present)) =>
               (IF device \in present
                THEN pc' = "is_connected" /\ device' = device /\ waited' = 1
                ELSE pc' = "fd_adapters")]_vars

\* A characteristic without notify failed the session, the delay was waited
\* and the same device is about to be retried.
C14_Witness ==
    /\ pc = "is_connected"
    /\ last = "recheck:reconnect"
    /\ hdcResult = "hc:SubscriptionFailed"
    /\ device # NoDevice
    /\ waited = 1

\* The notification is one the loop ignores: another characteristic, fewer
\* than 2 bytes, or the 16-bit flag with fewer than 3 bytes.
Ignored(n) ==
    \/ n.uuid # heart_rate_char_uuid
    \/ Len(n.value) < 2
    \/ (n.value[1] % 2 = 1 /\ Len(n.value) < 3)

(***************************************************************************)
(* C15.  A notification that is not for the heart-rate characteristic, or  *)
(* has fewer than 2 bytes, or has bit 0 set and fewer than 3 bytes, emits  *)
(* no sample: receiving it leaves the file and the datagrams sent as they  *)
(* were, and the supervisor stays in Streaming with the session open,      *)
(* polling for the next notification.                                      *)
(***************************************************************************)
C15_IgnoredEmitsNothing ==
    [][(RecvNotification /\ Ignored(Head(stream))) =>
          (/\ file' = file
           /\ sent' = sent
           /\ pc' = "streaming"
           /\ sessions' = sessions
           /\ stream' = Tail(stream)
           /\ decoded' = None
           /\ last' = "hc:ignored")]_vars

\* A two-byte notification that declares the 16-bit width has been received.
C15_Witness ==
    /\ last = "hc:ignored"
    /\ pc = "streaming"
    /\ IsSome(notification)
    /\ Unwrap(notification).uuid = heart_rate_char_uuid
    /\ Len(Unwrap(notification).value) = 2
    /\ Unwrap(notification).value[1] % 2 = 1
    /\ file = None /\ sent = << >>

\* The number a sequence of decimal digits writes.
RECURSIVE DecimalValue(_)
DecimalValue(ds) ==
    IF ds = << >> THEN 0
    ELSE 10 * DecimalValue(SubSeq(ds, 1, Len(ds) - 1)) + ds[Len(ds)]

(***************************************************************************)
(* C16.  For every decoded raw heart rate r in 0..65535 the file holds the *)
(* decimal text of min(r, 255) once the write succeeded, and the bundle    *)
(* sent for the same sample has HR = min(min(r, 255), 240) and             *)
(* hr_connected = (r > 0): raw 400 gives 255 and 240, raw 0 gives 0, 0 and *)
(* false.                                                                  *)
(***************************************************************************)
C16_ClampedTwice ==
    /\ (last \in {"hc:sample", "hc:sample_osc_err"}) =>
          /\ IsSome(decoded) /\ Unwrap(decoded) \in 0..65535
          /\ IsSome(file)
          /\ Len(Unwrap(file)) >= 1
          /\ (Len(Unwrap(file)) > 1 => Unwrap(file)[1] # 0)
          /\ \A k \in 1..Len(Unwrap(file)) : Unwrap(file)[k] \in 0..9
          /\ DecimalValue(Unwrap(file)) = Min(Unwrap(decoded), 255)
    /\ (last \in {"hc:sample", "hc:sample_file_err"}) =>
          /\ sent # << >>
          /\ LET b == sent[Len(sent)].bundle
                 r == Unwrap(decoded)
             IN /\ ArgOf(b, OscAddresses[5]).val = Min(Min(r, 255), 240)
                /\ ArgOf(b, OscAddresses[1]).val = (r > 0)
                /\ (r = 400 => ArgOf(b, OscAddresses[5]).val = 240)
                /\ (r = 0 => ArgOf(b, OscAddresses[5]).val = 0)

\* Raw 400 has been decoded, written as 255 and sent as HR 240.
C16_Witness ==
    /\ last = "hc:sample"
    /\ decoded = Some(400)
    /\ file = Some(<< 2, 5, 5 >>)
    /\ ArgOf(sent[Len(sent)].bundle, OscAddresses[5]).val = 240

\* The outcomes of a received sample in which a sink failed.
SinkFailures == { "hc:sample_file_err", "hc:sample_osc_err",
                  "hc:sample_both_err" }

\* What this step's sample is: the clamped value decoded from the
\* notification at the head of the stream.
HeadSample == Min(Unwrap(DecodeHeartRate(Head(stream))), 255)

(***************************************************************************)
(* C17.  A failure of the file write or of the OSC encode/send never ends  *)
(* the session: after it the supervisor is in Streaming with the session   *)
(* open and polls the next notification.  A file failure does not prevent  *)
(* the send of the same sample, and an OSC failure leaves the file as the  *)
(* write of the same sample made it.  (A receive step ends the session     *)
(* only when flushing the status line fails, after a successful send.)     *)
(***************************************************************************)
C17_SinkFailuresKeepSession ==
    /\ [](last \in SinkFailures =>
             (pc = "streaming" /\ sessions = 1 /\ IsSome(decoded)))
    /\ [][RecvNotification =>
            (/\ (pc' # "streaming") =>
                   (/\ last' = "hc:flush_err"
                    /\ sent' # << >>
                    /\ sent'[Len(sent')].heart_rate = HeadSample)
             /\ (last' \in SinkFailures) =>
                   (pc' = "streaming" /\ stream' = Tail(stream)
                                      /\ sessions' = sessions)
             /\ (last' = "hc:sample_file_err") =>
                   (/\ sent' = KeepLastTwo(Append(sent, sent'[Len(sent')]))
                    /\ sent'[Len(sent')].heart_rate = HeadSample
                    /\ file' \in {file, Some(<< >>)})
             /\ (last' = "hc:sample_osc_err") =>
                   (/\ sent' = sent
                    /\ IsSome(file')
                    /\ DecimalValue(Unwrap(file')) = HeadSample
                    /\ Len(Unwrap(file')) >= 1)
             /\ (last' = "hc:sample_both_err") =>
                   (sent' = sent /\ file' \in {file, Some(<< >>)}))]_vars

\* The send of sample 75 failed after its file write; the session went on,
\* and sample 255 was sent although its file write failed.
C17_Witness ==
    /\ last = "hc:sample_file_err"
    /\ pc = "streaming" /\ sessions = 1
    /\ file = Some(<< 7, 5 >>)
    /\ Len(sent) = 1
    /\ sent[1].heart_rate = 255

\* A connection attempt is under way: from the is_connected guard to the
\* end of the session.
AttemptPcs == ConnectingPcs \cup { "streaming" }

(***************************************************************************)
(* C19.  No retry path is a busy loop.  A connection attempt on a device   *)
(* ends in the reconnect delay (or in main_loop's return), and the next    *)
(* attempt on the same device begins after exactly that one delay; a       *)
(* failed selector call ends in the scan retry delay; every selector call  *)
(* but the first begins with one retry delay waited since the previous     *)
(* attempt began.                                                          *)
(***************************************************************************)
C19_DelayBetweenAttempts ==
    /\ [](pc = "fd_adapters" => (waited = 1 \/ last = "startup_ok"))
    /\ []((pc = "fd_adapters" /\ last = "startup_ok") =>
             (waited = 0 /\ sent = << >> /\ file = None))
    /\ []((pc = "is_connected" /\ last # "fd:selected") =>
             (waited = 1 /\ last = "recheck:reconnect"))
    /\ [][(pc \in AttemptPcs /\ pc' \notin AttemptPcs) =>
            (pc' \in {"reconnect_sleep", "stopped"})]_vars
    /\ [][(pc = "reconnect_sleep") =>
            (pc' = "recheck_adapters" /\ waited' = waited + 1)]_vars
    /\ [][(pc \in SelectorPcs /\ pc' \notin SelectorPcs) =>
            (\/ pc' = "scan_retry_sleep"
             \/ pc' = "is_connected" /\ last' = "fd:selected")]_vars
    /\ [][(pc = "scan_retry_sleep") =>
            (pc' = "fd_adapters" /\ waited' = waited + 1)]_vars
    /\ [][(pc' = "fd_adapters" /\ pc # "fd_adapters") =>
            (pc \in {"startup", "scan_retry_sleep", "recheck_peripherals"})]_vars
    /\ [][(pc' = "is_connected" /\ pc # "is_connected") =>
            (\/ pc = "fd_stop_scan"
             \/ pc = "recheck_peripherals" /\ device' = device)]_vars

\* After an earlier session a selector call failed, the retry delay was
\* waited and the next selector call begins.
C19_Witness ==
    /\ pc = "fd_adapters"
    /\ last = "scan_retry_slept"
    /\ waited = 1
    /\ sent # << >>

(***************************************************************************)
(* C20.  Every notification the stream delivers restarts the idle timeout, *)
(* an ignored one included: the timeout fires only when its whole window   *)
(* has run since the latest notification was received with nothing in the  *)
(* stream, and receiving an ignored notification keeps the supervisor in   *)
(* Streaming with the window started again and nothing written or sent.    *)
(***************************************************************************)
C20_TimeoutRestartedByAny ==
    /\ [][RecvNotification => (elapsed' = 0)]_vars
    /\ [][(RecvNotification /\ Ignored(Head(stream))) =>
            (/\ pc' = "streaming" /\ sessions' = sessions
             /\ file' = file /\ sent' = sent)]_vars
    /\ [][(pc = "streaming" /\ last' = "hc:timeout") =>
            (elapsed = HeartbeatTicks /\ stream = << >>)]_vars
    /\ [][(pc = "streaming" /\ elapsed' > elapsed) =>
            (stream = << >> /\ elapsed' = elapsed + 1 /\ pc' = "streaming")]_vars
    /\ [](elapsed \in 0..HeartbeatTicks)
    /\ [](pc # "streaming" => elapsed = 0)

\* An ignored notification was received, the window started again and one
\* tick of it has run; nothing was written or sent and the session is open.
C20_Witness ==
    /\ pc = "streaming"
    /\ last = "hc:ignored"
    /\ elapsed = 1
    /\ stream = << >>
    /\ file = None /\ sent = << >>

=============================================================================
